---- MODULE Spec2Model ----
(***************************************************************************)
(* evaluate_cifar.py: linear evaluation / fine-tuning of a pretrained      *)
(* ResNet on CIFAR with DistributedDataParallel, one process per GPU.      *)
(*                                                                         *)
(* The module holds five state machines over one set of variables:         *)
(*   SpecTrain   main_worker on every rank: start, checkpoint resume, the  *)
(*               epoch loop with its collectives, evaluation, the sanity   *)
(*               check and the checkpoint save, under job interruption.    *)
(*   SpecEval    the same over a wider range of measured accuracies.       *)
(*   SpecLive    SpecTrain without interruption, with fair scheduling.     *)
(*   SpecSplit   the train/validation split of main_worker.                *)
(*   SpecSignal  main() and the two signal handlers.                       *)
(*   SpecMeter   AverageMeter.                                             *)
(*   SpecAcc     accuracy().                                               *)
(***************************************************************************)
EXTENDS Integers, Sequences, FiniteSets, TLC

VARIABLES
    \* ---- main_worker, one entry per rank
    pc,             \* position of each rank in main_worker
    weights,        \* args.weights of the running job
    jobs,           \* number of jobs started so far
    epoch,          \* the loop variable of line 190
    step,           \* index of the batch inside the epoch (step - epoch * len(train_loader))
    start_epoch,
    best_val_acc,
    best_test_acc,
    model,          \* the module's state dict
    optimizer,      \* param_groups of the SGD optimizer
    scheduler,      \* last_epoch of the cosine scheduler
    ckpt,           \* checkpoint.pth
    stats,          \* rank 0's dict stats (lines 211 and 249), the record it printed last
    jobStartCkpt,   \* checkpoint.pth as it was when the running job started
    exitCause,      \* how the last job that died ended
    accTop,         \* the highest accuracy the data let an evaluation measure
    \* ---- the train/validation split
    splitpc, train_percent, dataset_len, train_idx, val_idx, num_train, num_val,
    \* ---- main() and the signal handlers
    mainpc, slurm_job_id, handlers, pending, frames, requeued, delivered, killedBy,
    \* ---- AverageMeter
    meter, meterLog, meterRaised,
    \* ---- accuracy()
    accpc, output, target, topk, res

trainVars  == <<pc, weights, jobs, epoch, step, start_epoch, best_val_acc, best_test_acc,
                model, optimizer, scheduler, ckpt, stats, jobStartCkpt, exitCause, accTop>>
splitVars  == <<splitpc, train_percent, dataset_len, train_idx, val_idx, num_train, num_val>>
signalVars == <<mainpc, slurm_job_id, handlers, pending, frames, requeued, delivered, killedBy>>
meterVars  == <<meter, meterLog, meterRaised>>
accVars    == <<accpc, output, target, topk, res>>
vars       == <<trainVars, splitVars, signalVars, meterVars, accVars>>

\* what the steps of one state machine leave alone
exceptTrain  == <<splitVars, signalVars, meterVars, accVars>>
exceptSplit  == <<trainVars, signalVars, meterVars, accVars>>
exceptSignal == <<trainVars, splitVars, meterVars, accVars>>
exceptMeter  == <<trainVars, splitVars, signalVars, accVars>>
exceptAcc    == <<trainVars, splitVars, signalVars, meterVars>>

Max(a, b) == IF a >= b THEN a ELSE b
Min(a, b) == IF a <= b THEN a ELSE b

(***************************************************************************)
(* Bounds                                                                  *)
(***************************************************************************)
NumRanks      == 2      \* args.world_size
Epochs        == 2      \* args.epochs
StepsPerEpoch == 2      \* len(train_loader), the same on every rank
PrintFreq     == 2      \* args.print_freq
MaxJobs       == 2      \* starts of the script (the first and the restarts)
MaxAcc        == 1      \* accuracies are drawn from 0..MaxAcc
MaxAccEval    == 2      \* the same, where only the evaluation is looked at

(***************************************************************************)
(* main_worker                                                             *)
(***************************************************************************)
Ranks   == 0 .. (NumRanks - 1)
Weights == {"freeze", "finetune"}
NoCkpt  == [exists |-> FALSE]
\* line 267: torch.save writes checkpoint.pth in place; a job ended while it writes
\* leaves a file that torch.load cannot read
TruncatedCkpt == [exists |-> TRUE, truncated |-> TRUE]
Readable(c) == c.exists /\ ~c.truncated
NoStats == [kind |-> "none"]
Namespace(a, b) == [top1 |-> a, top5 |-> b]

\* lines 102-107: the pretrained backbone is loaded, the classifier is initialised
PretrainedModel == [params |-> "pretrained", buffers |-> "pretrained", fc |-> "init"]

\* lines 108-110: the parameters that keep requires_grad
RequiresGrad(w) == IF w = "freeze" THEN {"fc"} ELSE {"fc", "backbone"}

\* lines 121-124: the parameter groups given to the optimizer
ParamGroups(w) == IF w = "finetune" THEN <<"fc", "backbone">> ELSE <<"fc">>

\* a model left in train mode whatever --weights is
TrainModeAlways(w) == "train"
\* lines 192-197: the mode of the model while it trains
TrainMode(w) == IF w = "finetune" THEN "train" ELSE "eval"

InGroups(groups, name) == \E i \in 1 .. Len(groups) : groups[i] = name

\* line 200: a forward pass in train mode updates the batch-norm running statistics
Forward(m, mode) == [m EXCEPT !.buffers = IF mode = "train" THEN "updated" ELSE @]

\* lines 202-204: SGD changes the parameters of its groups that have a gradient
SGDStep(m, groups, w) ==
    [m EXCEPT !.params = IF InGroups(groups, "backbone") /\ "backbone" \in RequiresGrad(w)
                         THEN "updated" ELSE @,
              !.fc     = IF InGroups(groups, "fc") /\ "fc" \in RequiresGrad(w)
                         THEN "trained" ELSE @]

\* line 199: the global step number of batch i of epoch e
GlobalStep(e, i) == e * StepsPerEpoch + i

\* a reduce that only rank 0 calls
ReducesAtRank0Only(r, e, i) == r = 0 /\ GlobalStep(e, i) % PrintFreq = 0
\* line 205: the steps at which the loss is reduced to rank 0
ReducesAt(r, e, i) == GlobalStep(e, i) % PrintFreq = 0

\* lines 199 and 217-219: after batch i the loop goes to the next batch or leaves
\* the epoch; rank 0 then evaluates, the other ranks go on to the sanity check
AfterBatch(r, i) ==
    IF i + 1 < StepsPerEpoch THEN "train" ELSE IF r = 0 THEN "evaluate" ELSE "sanity"

\* line 190: for epoch in range(start_epoch, args.epochs), for the value e
EnterEpoch(e) == IF e < Epochs THEN "train" ELSE "done"

\* a resume that runs the last completed epoch again
ResumeEpochOneBack(c) == Max(c.epoch - 1, 0)
\* line 131: the epoch a resumed run starts from
ResumeEpoch(c) == c.epoch

\* line 265: the epoch stored in the checkpoint
SavedEpoch(e) == e + 1

\* The processes of the job end (an exception on one rank makes spawn end the
\* others, or the job is interrupted): what they held in memory is gone.
JobEnds(cause) ==
    /\ pc' = [r \in Ranks |-> "dead"]
    /\ exitCause' = cause
    /\ epoch' = [r \in Ranks |-> 0]
    /\ step' = [r \in Ranks |-> 0]
    /\ start_epoch' = [r \in Ranks |-> 0]
    /\ best_val_acc' = [r \in Ranks |-> Namespace(0, 0)]
    /\ best_test_acc' = [r \in Ranks |-> Namespace(0, 0)]
    /\ model' = [r \in Ranks |-> PretrainedModel]
    /\ optimizer' = [r \in Ranks |-> <<"fc">>]
    /\ scheduler' = [r \in Ranks |-> 0]
    /\ stats' = NoStats

InitTrainVars(top) ==
    /\ accTop = top
    /\ pc = [r \in Ranks |-> "dead"]
    /\ weights = "freeze"
    /\ jobs = 0
    /\ epoch = [r \in Ranks |-> 0]
    /\ step = [r \in Ranks |-> 0]
    /\ start_epoch = [r \in Ranks |-> 0]
    /\ best_val_acc = [r \in Ranks |-> Namespace(0, 0)]
    /\ best_test_acc = [r \in Ranks |-> Namespace(0, 0)]
    /\ model = [r \in Ranks |-> PretrainedModel]
    /\ optimizer = [r \in Ranks |-> <<"fc">>]
    /\ scheduler = [r \in Ranks |-> 0]
    /\ ckpt = NoCkpt
    /\ stats = NoStats
    /\ jobStartCkpt = NoCkpt
    /\ exitCause = "none"

\* main, lines 65-75, and main_worker, lines 78-125: the job is started with some
\* --weights; every rank builds the model, loads the pretrained weights and
\* creates the optimizer and the scheduler.
StartJob(w) ==
    /\ \A r \in Ranks : pc[r] \in {"dead", "done"}
    /\ jobs < MaxJobs
    /\ jobs' = jobs + 1
    /\ weights' = w
    /\ pc' = [r \in Ranks |-> "init"]
    /\ epoch' = [r \in Ranks |-> 0]
    /\ step' = [r \in Ranks |-> 0]
    /\ start_epoch' = [r \in Ranks |-> 0]
    /\ best_val_acc' = [r \in Ranks |-> Namespace(0, 0)]
    /\ best_test_acc' = [r \in Ranks |-> Namespace(0, 0)]
    /\ model' = [r \in Ranks |-> PretrainedModel]
    /\ optimizer' = [r \in Ranks |-> ParamGroups(w)]
    /\ scheduler' = [r \in Ranks |-> 0]
    /\ jobStartCkpt' = ckpt
    /\ exitCause' = "none"
    /\ stats' = NoStats
    /\ UNCHANGED <<ckpt, accTop>>
    /\ UNCHANGED exceptTrain

\* line 117: the DistributedDataParallel constructor is a collective, it returns
\* on a rank once every rank has entered it.
DDPConstruct ==
    /\ \A r \in Ranks : pc[r] = "init"
    /\ pc' = [r \in Ranks |-> "load"]
    /\ UNCHANGED <<weights, jobs, epoch, step, start_epoch, best_val_acc, best_test_acc,
                   model, optimizer, scheduler, ckpt, stats, jobStartCkpt, accTop, exitCause>>
    /\ UNCHANGED exceptTrain

\* lines 127-140 and 190: resume from checkpoint.pth when it is there, and enter
\* the loop at the epoch the run starts from. torch.load raises on a file it
\* cannot read, and optimizer.load_state_dict raises ValueError when the number of
\* parameter groups differs; the exception ends the rank and
\* torch.multiprocessing.spawn then ends the job.
LoadCheckpoint(r) ==
    /\ pc[r] = "load"
    /\ IF ckpt.exists /\ ckpt.truncated
       THEN JobEnds("RuntimeError")
       ELSE IF ckpt.exists /\ Len(ckpt.optimizer) # Len(optimizer[r])
       THEN JobEnds("ValueError")
       ELSE /\ pc' = [pc EXCEPT ![r] = EnterEpoch(IF ckpt.exists THEN ResumeEpoch(ckpt) ELSE 0)]
            /\ UNCHANGED <<exitCause, step, stats>>
            /\ IF ckpt.exists
               THEN /\ start_epoch' = [start_epoch EXCEPT ![r] = ResumeEpoch(ckpt)]
                    /\ epoch' = [epoch EXCEPT ![r] = ResumeEpoch(ckpt)]
                    /\ best_val_acc' = [best_val_acc EXCEPT ![r] = ckpt.best_val_acc]
                    /\ best_test_acc' = [best_test_acc EXCEPT ![r] = ckpt.best_test_acc]
                    /\ model' = [model EXCEPT ![r] = ckpt.model]
                    /\ optimizer' = optimizer
                    /\ scheduler' = [scheduler EXCEPT ![r] = ckpt.scheduler]
               ELSE /\ start_epoch' = [start_epoch EXCEPT ![r] = 0]
                    /\ epoch' = [epoch EXCEPT ![r] = 0]
                    /\ best_val_acc' = [best_val_acc EXCEPT ![r] = Namespace(0, 0)]
                    /\ best_test_acc' = [best_test_acc EXCEPT ![r] = Namespace(0, 0)]
                    /\ UNCHANGED <<model, optimizer, scheduler>>
    /\ UNCHANGED <<weights, jobs, ckpt, jobStartCkpt, accTop>>
    /\ UNCHANGED exceptTrain

\* lines 200-205: one batch. loss.backward() all-reduces the gradients of the
\* DistributedDataParallel model, a collective that completes when every rank has
\* entered it; each rank then takes the same optimizer step.
TrainStep ==
    /\ \A r \in Ranks : pc[r] = "train"
    /\ model' = [r \in Ranks |->
                    SGDStep(Forward(model[r], TrainMode(weights)), optimizer[r], weights)]
    /\ pc' = [r \in Ranks |-> IF ReducesAt(r, epoch[r], step[r])
                              THEN "reduce" ELSE AfterBatch(r, step[r])]
    /\ step' = [r \in Ranks |-> IF ReducesAt(r, epoch[r], step[r])
                                THEN step[r] ELSE step[r] + 1]
    /\ UNCHANGED <<weights, jobs, epoch, start_epoch, best_val_acc, best_test_acc,
                   optimizer, scheduler, ckpt, stats, jobStartCkpt, accTop, exitCause>>
    /\ UNCHANGED exceptTrain

\* lines 211-213: the record of a step (the learning rates, the loss and the time
\* are not modelled)
StepStats(e, s) == [kind |-> "step", epoch |-> e, step |-> s]

\* lines 206-215: torch.distributed.reduce of the loss, a collective of all ranks;
\* rank 0 then prints the step's record.
Reduce ==
    /\ \A r \in Ranks : pc[r] = "reduce"
    /\ pc' = [r \in Ranks |-> AfterBatch(r, step[r])]
    /\ step' = [r \in Ranks |-> step[r] + 1]
    /\ stats' = StepStats(epoch[0], GlobalStep(epoch[0], step[0]))
    /\ UNCHANGED <<weights, jobs, epoch, start_epoch, best_val_acc, best_test_acc,
                   model, optimizer, scheduler, ckpt, jobStartCkpt, accTop, exitCause>>
    /\ UNCHANGED exceptTrain

\* The accuracies one evaluation can measure: top-1 never above top-5.
Accs == {a \in [top1 : 0 .. accTop, top5 : 0 .. accTop] : a.top1 <= a.top5}

\* lines 240-246: the best accuracies after an epoch that measured val and test
BestVal(bv, val) ==
    [top1 |-> IF val.top1 > bv.top1 THEN val.top1 ELSE bv.top1,
     top5 |-> Max(bv.top5, val.top5)]
BestTest(bv, bt, val, test) ==
    IF val.top1 > bv.top1
    THEN [top1 |-> Max(bt.top1, test.top1), top5 |-> Max(bt.top5, test.top5)]
    ELSE bt

\* lines 249-251: the record of the epoch
EpochStats(e, val, test, bv, bt) ==
    [kind |-> "epoch", epoch |-> e,
     val_acc1 |-> val.top1, val_acc5 |-> val.top5,
     best_val_acc1 |-> bv.top1, best_val_acc5 |-> bt.top5,
     test_acc1 |-> test.top1, test_acc5 |-> test.top5,
     best_test_acc1 |-> bt.top1, best_test_acc5 |-> bt.top5]

\* lines 217-253: rank 0 measures the validation and test accuracies (in eval mode,
\* without gradients), updates the best accuracies and writes the epoch's record.
Evaluate ==
    /\ pc[0] = "evaluate"
    /\ pc' = [pc EXCEPT ![0] = "sanity"]
    /\ \E val \in Accs, test \in Accs :
         LET bv == BestVal(best_val_acc[0], val)
             bt == BestTest(best_val_acc[0], best_test_acc[0], val, test)
         IN  /\ best_val_acc' = [best_val_acc EXCEPT ![0] = bv]
             /\ best_test_acc' = [best_test_acc EXCEPT ![0] = bt]
             /\ stats' = EpochStats(epoch[0], val, test, bv, bt)
    /\ UNCHANGED <<weights, jobs, epoch, step, start_epoch, model, optimizer, scheduler,
                   ckpt, jobStartCkpt, accTop, exitCause>>
    /\ UNCHANGED exceptTrain

\* lines 255-260: with --weights freeze every entry of the pretrained state dict must
\* still be in the model
SanityHolds(w, m) == w = "freeze" => m.params = "pretrained" /\ m.buffers = "pretrained"

\* lines 255-267 and 190: the sanity check (a failed assertion ends the rank and the
\* job), then the scheduler steps, rank 0 saves the checkpoint, and the loop takes
\* the next epoch or ends.
EndEpoch(r) ==
    /\ pc[r] = "sanity"
    /\ IF ~SanityHolds(weights, model[r])
       THEN /\ JobEnds("AssertionError")
            /\ ckpt' = ckpt
       ELSE /\ scheduler' = [scheduler EXCEPT ![r] = @ + 1]
            /\ IF r = 0
               THEN ckpt' = [exists |-> TRUE, truncated |-> FALSE,
                             epoch |-> SavedEpoch(epoch[r]),
                             best_val_acc |-> best_val_acc[r],
                             best_test_acc |-> best_test_acc[r],
                             model |-> model[r], optimizer |-> optimizer[r],
                             scheduler |-> scheduler[r] + 1]
               ELSE ckpt' = ckpt
            /\ epoch' = [epoch EXCEPT ![r] = @ + 1]
            /\ pc' = [pc EXCEPT ![r] = EnterEpoch(epoch[r] + 1)]
            /\ step' = [step EXCEPT ![r] = 0]
            /\ UNCHANGED <<start_epoch, best_val_acc, best_test_acc, model, optimizer,
                           exitCause, stats>>
    /\ UNCHANGED <<weights, jobs, jobStartCkpt, accTop>>
    /\ UNCHANGED exceptTrain

\* The job is interrupted (preempted, requeued, cancelled): every process of it
\* ends. While rank 0 is in lines 262-267 the interruption can fall into torch.save.
Interrupt ==
    /\ \E r \in Ranks : pc[r] \notin {"dead", "done"}
    /\ JobEnds("interrupted")
    /\ \/ ckpt' = ckpt
       \/ /\ pc[0] = "sanity" /\ SanityHolds(weights, model[0])
          /\ ckpt' = TruncatedCkpt
    /\ UNCHANGED <<weights, jobs, jobStartCkpt, accTop>>
    /\ UNCHANGED exceptTrain

(***************************************************************************)
(* The train/validation split, lines 168-179                               *)
(***************************************************************************)
MaxDataset == 120       \* len(train_dataset) is drawn from 0..MaxDataset
MaxShift   == 2         \* the shuffles tried are the rotations by 0..MaxShift

TrainPercents == {100, 10, 1}

\* int(x / y) and int(0.1 * x) of non-negative integers: the float quotient and
\* product truncate to the integer quotient for every x below 2^31.
IntDiv(x, y) == x \div y

\* l[a:] and l[:a] of a Python list, 0 <= a
SliceFrom(l, a) == SubSeq(l, Min(a, Len(l)) + 1, Len(l))
SliceTo(l, a)   == SubSeq(l, 1, Min(a, Len(l)))

\* line 171-172: list(range(n)) shuffled by a generator of fixed seed is one fixed
\* permutation of 0..n-1; the permutations tried here are the rotations.
Shuffled(n, k) == [i \in 1 .. n |-> (i - 1 + k) % n]

\* line 175: the indices of the validation subset
ValIdx(idx, ntrain, nval) == SliceFrom(idx, ntrain)

InitSplitVars ==
    /\ splitpc = "start"
    /\ train_percent \in TrainPercents
    /\ dataset_len \in 0 .. MaxDataset
    /\ train_idx = <<>>
    /\ val_idx = <<>>
    /\ num_train = 0
    /\ num_val = 0

IdleSplitVars ==
    /\ splitpc = "idle"
    /\ train_percent = 100
    /\ dataset_len = 0
    /\ train_idx = <<>>
    /\ val_idx = <<>>
    /\ num_train = 0
    /\ num_val = 0

\* lines 169-176
SplitTrainVal(k) ==
    /\ splitpc = "start"
    /\ LET n0  == IntDiv(train_percent * dataset_len, 100)
           idx == Shuffled(dataset_len, k)
           nv  == IntDiv(n0, 10)
           nt  == n0 - nv
       IN  /\ num_val' = nv
           /\ num_train' = nt
           /\ val_idx' = ValIdx(idx, nt, nv)
           /\ train_idx' = SliceTo(idx, nt)
    /\ splitpc' = "split"
    /\ UNCHANGED <<train_percent, dataset_len>>
    /\ UNCHANGED exceptSplit

\* lines 178-179: the two Subset datasets are built from the index lists
MakeSubsets ==
    /\ splitpc = "split"
    /\ splitpc' = "subsets"
    /\ UNCHANGED <<train_percent, dataset_len, train_idx, val_idx, num_train, num_val>>
    /\ UNCHANGED exceptSplit

(***************************************************************************)
(* main() and the signal handlers, lines 65-75 and 270-276                 *)
(***************************************************************************)
MaxJobId   == 2         \* SLURM_JOB_ID is unset (0) or one of 1..MaxJobId
MaxSignals == 2         \* deliveries of each signal

Signals == {"SIGUSR1", "SIGTERM"}

\* lines 68-70: the handlers main() installs
Installed(job) ==
    IF job # 0
    THEN [SIGUSR1 |-> "handle_sigusr1", SIGTERM |-> "handle_sigterm"]
    ELSE [SIGUSR1 |-> "SIG_DFL", SIGTERM |-> "SIG_DFL"]

\* a handle_sigterm that calls exit()
SigtermExits(fr) == <<"exit">> \o fr
\* lines 275-276: handle_sigterm returns at once; the frames of the main thread
\* after it has run
HandleSigterm(fr) == fr

\* line 271: the job the requeue command names
RequeueTarget(job) == job

\* what the main thread is executing: the innermost handler frame, or main()
TopFrame(fr) == IF fr = <<>> THEN "main" ELSE Head(fr)

InitSignalVars ==
    /\ mainpc = "start"
    /\ slurm_job_id \in 0 .. MaxJobId
    /\ handlers = [s \in Signals |-> "SIG_DFL"]
    /\ pending = {}
    /\ frames = <<>>
    /\ requeued = <<>>
    /\ delivered = [s \in Signals |-> 0]
    /\ killedBy = "none"

IdleSignalVars ==
    /\ mainpc = "idle"
    /\ slurm_job_id = 0
    /\ handlers = [s \in Signals |-> "SIG_DFL"]
    /\ pending = {}
    /\ frames = <<>>
    /\ requeued = <<>>
    /\ delivered = [s \in Signals |-> 0]
    /\ killedBy = "none"

\* lines 66-75: main() installs the handlers when SLURM_JOB_ID is in the
\* environment and then waits in torch.multiprocessing.spawn for the workers.
Main ==
    /\ mainpc = "start"
    /\ handlers' = Installed(slurm_job_id)
    /\ mainpc' = "spawned"
    /\ UNCHANGED <<slurm_job_id, pending, frames, requeued, delivered, killedBy>>
    /\ UNCHANGED exceptSignal

\* The kernel delivers a signal to the main process: the default action of both
\* signals ends the process; with a Python handler installed the signal is noted
\* and the handler runs later in the main thread.
Deliver(s) ==
    /\ mainpc \in {"start", "spawned"}
    /\ delivered[s] < MaxSignals
    /\ delivered' = [delivered EXCEPT ![s] = @ + 1]
    /\ IF handlers[s] = "SIG_DFL"
       THEN /\ mainpc' = "killed"
            /\ killedBy' = s
            /\ pending' = pending
       ELSE /\ pending' = pending \cup {s}
            /\ UNCHANGED <<mainpc, killedBy>>
    /\ UNCHANGED <<slurm_job_id, handlers, frames, requeued>>
    /\ UNCHANGED exceptSignal

\* The interpreter runs the handler of a noted signal between two bytecodes of the
\* main thread (not while the thread is inside os.system). handle_sigusr1, line
\* 271, starts 'scontrol requeue <SLURM_JOB_ID>' with os.system.
RunHandler(s) ==
    /\ mainpc = "spawned"
    /\ s \in pending
    /\ TopFrame(frames) # "system"
    /\ pending' = pending \ {s}
    /\ IF handlers[s] = "handle_sigusr1"
       THEN /\ requeued' = Append(requeued, RequeueTarget(slurm_job_id))
            /\ frames' = <<"system">> \o frames
       ELSE /\ requeued' = requeued
            /\ frames' = HandleSigterm(frames)
    /\ UNCHANGED <<mainpc, slurm_job_id, handlers, delivered, killedBy>>
    /\ UNCHANGED exceptSignal

\* line 271: os.system returns
SystemReturns ==
    /\ mainpc = "spawned"
    /\ TopFrame(frames) = "system"
    /\ frames' = <<"exit">> \o Tail(frames)
    /\ UNCHANGED <<mainpc, slurm_job_id, handlers, pending, requeued, delivered, killedBy>>
    /\ UNCHANGED exceptSignal

\* line 272: exit() raises SystemExit in the main thread
Exit ==
    /\ mainpc = "spawned"
    /\ TopFrame(frames) = "exit"
    /\ mainpc' = "exited"
    /\ frames' = <<>>
    /\ UNCHANGED <<slurm_job_id, handlers, pending, requeued, delivered, killedBy>>
    /\ UNCHANGED exceptSignal

\* line 75: spawn returns when the workers have ended, and main() returns
WorkersEnd ==
    /\ mainpc = "spawned"
    /\ frames = <<>>
    /\ mainpc' = "finished"
    /\ UNCHANGED <<slurm_job_id, handlers, pending, frames, requeued, delivered, killedBy>>
    /\ UNCHANGED exceptSignal

(***************************************************************************)
(* AverageMeter, lines 279-296                                             *)
(***************************************************************************)
MaxVal     == 2         \* values given to update are drawn from 0..MaxVal
MaxN       == 2         \* weights given to update are drawn from 0..MaxN
MaxUpdates == 3         \* updates after a reset

RECURSIVE Gcd(_, _)
Gcd(a, b) == IF b = 0 THEN a ELSE Gcd(b, a % b)

\* a / b of two non-negative integers, b > 0, as a fraction in lowest terms
Quotient(a, b) == [num |-> a \div Gcd(a, b), den |-> b \div Gcd(a, b)]

\* lines 287-290
ResetMeter == [val |-> 0, avg |-> [num |-> 0, den |-> 1], sum |-> 0, count |-> 0]

\* a sum that ignores the weight n
UpdateSumUnweighted(s, val, n) == s + val
\* line 294
UpdateSum(s, val, n) == s + val * n

InitMeterVars ==
    /\ meter = ResetMeter
    /\ meterLog = <<>>
    /\ meterRaised = FALSE

\* lines 286-290: reset()
Reset ==
    /\ meter' = ResetMeter
    /\ meterLog' = <<>>
    /\ meterRaised' = FALSE
    /\ UNCHANGED exceptMeter

\* lines 292-296: update(val, n); the division raises ZeroDivisionError when the
\* count is 0, after val, sum and count have been assigned.
Update(val, n) ==
    /\ Len(meterLog) < MaxUpdates
    /\ LET s == UpdateSum(meter.sum, val, n)
           c == meter.count + n
       IN  /\ meter' = [val |-> val, sum |-> s, count |-> c,
                        avg |-> IF c = 0 THEN meter.avg ELSE Quotient(s, c)]
           /\ meterRaised' = (c = 0)
    /\ meterLog' = Append(meterLog, <<val, n>>)
    /\ UNCHANGED exceptMeter

(***************************************************************************)
(* accuracy(), lines 303-317                                               *)
(***************************************************************************)
NumClasses   == 3       \* columns of output
MaxScore     == 1       \* scores are drawn from 0..MaxScore
MaxBatch     == 45      \* batch_size goes up to MaxBatch

Classes == 0 .. (NumClasses - 1)

RECURSIVE Pow2(_)
Pow2(n) == IF n = 0 THEN 1 ELSE 2 * Pow2(n - 1)

\* A float32 is [m, e], the value m * 2^e with 2^23 <= m < 2^24, or zero.
F32Zero == [m |-> 0, e |-> 0]

RoundHalfEven(a, b) ==
    LET q == a \div b
        r == a % b
    IN  IF 2 * r < b THEN q
        ELSE IF 2 * r > b THEN q + 1
        ELSE IF q % 2 = 0 THEN q ELSE q + 1

Normalised(m, e) == IF m = Pow2(24) THEN [m |-> Pow2(23), e |-> e + 1] ELSE [m |-> m, e |-> e]

RECURSIVE ShiftUp(_, _, _)
ShiftUp(num, den, k) == IF num * Pow2(k) >= den * Pow2(23) THEN k ELSE ShiftUp(num, den, k + 1)

\* num / den rounded to the nearest float32, for 0 <= num / den < 2^24
F32Quot(num, den) ==
    IF num = 0 THEN F32Zero
    ELSE LET k == ShiftUp(num, den, 0)
         IN  Normalised(RoundHalfEven(num * Pow2(k), den), 0 - k)

RECURSIVE ShiftDown(_, _)
ShiftDown(p, j) == IF p < Pow2(24 + j) THEN j ELSE ShiftDown(p, j + 1)

\* the float32 product of the integer c (itself a float32) and f
F32Mul(c, f) ==
    IF c = 0 \/ f.m = 0 THEN F32Zero
    ELSE LET p == c * f.m
             j == ShiftDown(p, 0)
         IN  Normalised(RoundHalfEven(p, Pow2(j)), f.e + j)

F32Leq(a, b) ==
    IF a.m = 0 THEN TRUE
    ELSE IF b.m = 0 THEN FALSE
    ELSE a.e < b.e \/ (a.e = b.e /\ a.m <= b.m)

\* line 316: 100.0 / batch_size is a Python float, rounded to float32 when it
\* multiplies the float32 tensor.
Scale(bs) == F32Quot(100, bs)

\* line 309: output.topk(maxk, 1, True, True) of one row: maxk distinct classes of
\* the largest scores, in descending order of score; which of several equal scores
\* comes first is the implementation's choice.
Topk(row, maxk) ==
    {s \in [1 .. maxk -> Classes] :
        /\ \A i, j \in 1 .. maxk : i < j => s[i] # s[j] /\ row[s[i]] >= row[s[j]]
        /\ \A c \in Classes : (\A i \in 1 .. maxk : s[i] # c) => row[c] <= row[s[maxk]]}

\* lines 309-310: pred, one choice of Topk for every row of the batch
RECURSIVE Preds(_, _, _)
Preds(out, maxk, n) ==
    IF n = 0 THEN {<<>>}
    ELSE {Append(p, s) : p \in Preds(out, maxk, n - 1), s \in Topk(out[n], maxk)}

RECURSIVE SeqMax(_)
SeqMax(s) == IF Len(s) = 1 THEN s[1] ELSE Max(s[1], SeqMax(Tail(s)))

\* a count over row k of correct alone, not over its first k rows
CorrectKLast(pred, tgt, k) ==
    Cardinality({i \in 1 .. Len(tgt) : pred[i][k] = tgt[i]})
\* lines 311, 315: the number of ones in correct[:k]
CorrectK(pred, tgt, k) ==
    Cardinality({i \in 1 .. Len(tgt) : \E j \in 1 .. k : pred[i][j] = tgt[i]})

\* lines 313-317
Accuracy(pred, tgt, tk) ==
    [i \in 1 .. Len(tk) |-> F32Mul(CorrectK(pred, tgt, tk[i]), Scale(Len(tgt)))]

Rows    == [Classes -> 0 .. MaxScore]
Samples == [row : Rows, target : Classes]

\* two samples without equal scores: the target has the highest score, the target
\* has the lowest score
TopSample    == [row |-> [c \in Classes |-> NumClasses - c], target |-> 0]
BottomSample == [row |-> [c \in Classes |-> NumClasses - c], target |-> NumClasses - 1]

\* the batches tried: every sample alone and every sample next to TopSample (rows
\* with equal scores among them), and for every batch_size up to MaxBatch the
\* batches of h times TopSample and then BottomSample
Batches ==
    {<<x>> : x \in Samples} \cup {<<x, TopSample>> : x \in Samples} \cup
    UNION {{[i \in 1 .. bs |-> IF i <= h THEN TopSample ELSE BottomSample] : h \in 0 .. bs} :
             bs \in 1 .. MaxBatch}

\* the topk arguments tried: the call of lines 226 and 236 is topk=(1, 5)
TopkInputs == {<<1>>, <<1, 2>>, <<2, 1>>, <<1, NumClasses>>, <<2, 2>>}

InitAccVars ==
    /\ accpc = "call"
    /\ \E b \in Batches :
         /\ output = [i \in 1 .. Len(b) |-> b[i].row]
         /\ target = [i \in 1 .. Len(b) |-> b[i].target]
    /\ topk \in TopkInputs
    /\ res = <<>>

IdleAccVars ==
    /\ accpc = "idle"
    /\ output = <<>>
    /\ target = <<>>
    /\ topk = <<>>
    /\ res = <<>>

\* lines 303-317
CallAccuracy ==
    /\ accpc = "call"
    /\ \E pred \in Preds(output, SeqMax(topk), Len(output)) :
         res' = Accuracy(pred, target, topk)
    /\ accpc' = "returned"
    /\ UNCHANGED <<output, target, topk>>
    /\ UNCHANGED exceptAcc

\* lines 226-228: the caller takes acc1 and acc5 out of the result
TakeResult ==
    /\ accpc = "returned"
    /\ accpc' = "taken"
    /\ UNCHANGED <<output, target, topk, res>>
    /\ UNCHANGED exceptAcc

(***************************************************************************)
(* Specifications                                                          *)
(***************************************************************************)
InitTrain == InitTrainVars(MaxAcc) /\ IdleSplitVars /\ IdleSignalVars /\ InitMeterVars /\ IdleAccVars

NextTrain ==
    \/ \E w \in Weights : StartJob(w)
    \/ DDPConstruct
    \/ \E r \in Ranks : LoadCheckpoint(r)
    \/ TrainStep
    \/ Reduce
    \/ Evaluate
    \/ \E r \in Ranks : EndEpoch(r)
    \/ Interrupt

SpecTrain == InitTrain /\ [][NextTrain]_vars

InitEval == InitTrainVars(MaxAccEval) /\ IdleSplitVars /\ IdleSignalVars /\ InitMeterVars /\ IdleAccVars

SpecEval == InitEval /\ [][NextTrain]_vars

NextLive ==
    \/ \E w \in Weights : StartJob(w)
    \/ DDPConstruct
    \/ \E r \in Ranks : LoadCheckpoint(r)
    \/ TrainStep
    \/ Reduce
    \/ Evaluate
    \/ \E r \in Ranks : EndEpoch(r)

SpecLive == InitTrain /\ [][NextLive]_vars /\ WF_vars(NextLive)

InitSplit == InitTrainVars(0) /\ InitSplitVars /\ IdleSignalVars /\ InitMeterVars /\ IdleAccVars

NextSplit ==
    \/ \E k \in 0 .. MaxShift : SplitTrainVal(k)
    \/ MakeSubsets

SpecSplit == InitSplit /\ [][NextSplit]_vars

InitSignal == InitTrainVars(0) /\ IdleSplitVars /\ InitSignalVars /\ InitMeterVars /\ IdleAccVars

NextSignal ==
    \/ Main
    \/ \E s \in Signals : Deliver(s)
    \/ \E s \in Signals : RunHandler(s)
    \/ SystemReturns
    \/ Exit
    \/ WorkersEnd

SpecSignal == InitSignal /\ [][NextSignal]_vars

InitMeter == InitTrainVars(0) /\ IdleSplitVars /\ IdleSignalVars /\ InitMeterVars /\ IdleAccVars

NextMeter ==
    \/ Reset
    \/ \E val \in 0 .. MaxVal, n \in 0 .. MaxN : Update(val, n)

SpecMeter == InitMeter /\ [][NextMeter]_vars

InitAcc == InitTrainVars(0) /\ IdleSplitVars /\ IdleSignalVars /\ InitMeterVars /\ InitAccVars

NextAcc ==
    \/ CallAccuracy
    \/ TakeResult

SpecAcc == InitAcc /\ [][NextAcc]_vars

(***************************************************************************)
(* Checkpoint resume                                                       *)
(***************************************************************************)
CkptEpoch(c) == IF Readable(c) THEN c.epoch ELSE 0

InEpoch(r) == pc[r] \in {"train", "reduce", "evaluate", "sanity"}
Loaded(r)  == InEpoch(r) \/ pc[r] = "done"

\* what holds of every state of a run that resumes
ResumeState ==
    /\ \A r \in Ranks : (Loaded(r) /\ jobStartCkpt.exists) =>
          /\ Readable(jobStartCkpt)
          /\ start_epoch[r] = jobStartCkpt.epoch
          /\ (r # 0 \/ (epoch[r] = start_epoch[r] /\ pc[r] # "sanity")) =>
                /\ best_val_acc[r] = jobStartCkpt.best_val_acc
                /\ best_test_acc[r] = jobStartCkpt.best_test_acc
    /\ Readable(ckpt) => ckpt.epoch \in 1 .. Epochs
    /\ \A r \in Ranks :
          /\ pc[r] \in {"train", "reduce", "evaluate"} => epoch[r] >= CkptEpoch(ckpt)
          /\ pc[r] = "sanity" => epoch[r] + 1 >= CkptEpoch(ckpt)
    /\ (Readable(jobStartCkpt) /\ jobStartCkpt.epoch = Epochs) =>
          /\ \A r \in Ranks : ~InEpoch(r)
          /\ ckpt = jobStartCkpt

\* what holds of every write of checkpoint.pth
CheckpointWrite ==
    ckpt' # ckpt =>
        /\ pc[0] = "sanity"
        /\ ckpt'.exists
        /\ Readable(ckpt') => /\ ckpt'.epoch = epoch[0] + 1
                              /\ ckpt'.epoch > CkptEpoch(ckpt)

\* C1: a run that finds checkpoint.pth starts every rank from the epoch and the
\* best accuracies stored in it; the epoch stored is the index of the epoch just
\* completed plus one; over interruptions and restarts the stored epoch never
\* decreases and never exceeds args.epochs, no epoch whose checkpoint is written
\* is run again, and a start from a checkpoint of epoch args.epochs runs no epoch
\* and writes no checkpoint. (A checkpoint.pth that an interruption truncated stores
\* nothing: a start that finds it ends in torch.load before the loop.)
CheckpointResume == []ResumeState /\ [][CheckpointWrite]_vars

\* C1, its case: the second job found the checkpoint of epoch 1 with a best
\* validation accuracy above 0, ran the remaining epochs on every rank and wrote
\* the checkpoint of the last epoch.
CheckpointResumeWitness ==
    /\ jobs = 2
    /\ Readable(jobStartCkpt) /\ jobStartCkpt.epoch = 1
    /\ jobStartCkpt.best_val_acc.top1 > 0
    /\ \A r \in Ranks : pc[r] = "done" /\ start_epoch[r] = 1
    /\ ckpt.epoch = Epochs

(***************************************************************************)
(* The frozen backbone                                                     *)
(***************************************************************************)
\* C2: with --weights freeze the optimizer holds the classifier's parameters only,
\* at the end of every epoch (also of a resumed run) the entries of the pretrained
\* state dict are unchanged in the model, and the sanity check never fails.
FrozenBackbone ==
    /\ weights = "freeze" =>
          \A r \in Ranks :
             /\ pc[r] # "dead" => optimizer[r] = <<"fc">>
             /\ Loaded(r) => model[r].params = "pretrained" /\ model[r].buffers = "pretrained"
    /\ exitCause # "AssertionError"

\* C2, its case: a resumed run with --weights freeze has trained an epoch on every
\* rank, the classifier has changed, and rank 0 is at the sanity check.
FrozenBackboneWitness ==
    /\ weights = "freeze"
    /\ Readable(jobStartCkpt)
    /\ pc[0] = "sanity" /\ epoch[0] = jobStartCkpt.epoch
    /\ \A r \in Ranks : Loaded(r) /\ model[r].fc = "trained"

(***************************************************************************)
(* The collectives                                                         *)
(***************************************************************************)
InCollective(r) == pc[r] \in {"train", "reduce"}

\* what holds of the ranks of a running job
RanksMatched ==
    \A r, q \in Ranks :
       /\ (Loaded(r) /\ Loaded(q)) => start_epoch[r] = start_epoch[q]
       /\ (InCollective(r) /\ InCollective(q)) =>
             pc[r] = pc[q] /\ epoch[r] = epoch[q] /\ step[r] = step[q]
       /\ pc[r] = "reduce" => GlobalStep(epoch[r], step[r]) % PrintFreq = 0
       /\ ~(InCollective(r) /\ pc[q] = "done")

SplitSizes ==
    splitpc \in {"split", "subsets"} =>
        LET M == IntDiv(train_percent * dataset_len, 100)
        IN  /\ Len(val_idx) = IntDiv(M, 10)
            /\ Len(train_idx) = M - IntDiv(M, 10)
            /\ Len(val_idx) + Len(train_idx) = M

(***************************************************************************)
(* The best accuracies and the epoch record                                *)
(***************************************************************************)
\* C4: after the evaluation of an epoch best_test_acc holds the test accuracies
\* measured in the epoch that last set best_val_acc.top1: an evaluation that raises
\* best_val_acc.top1 sets best_test_acc to the test accuracies it measured, and
\* any other evaluation leaves best_test_acc alone.
BestTestFollowsBestVal ==
    [][(pc[0] = "evaluate" /\ pc'[0] = "sanity") =>
          IF best_val_acc'[0].top1 # best_val_acc[0].top1
          THEN best_test_acc'[0] = Namespace(stats'.test_acc1, stats'.test_acc5)
          ELSE best_test_acc'[0] = best_test_acc[0]]_vars

\* C5: in the epoch record rank 0 has just written, best_val_acc5 is
\* best_val_acc.top5 and best_val_acc1 is best_val_acc.top1.
StatsBestVal ==
    (pc[0] = "sanity" /\ stats.kind = "epoch") =>
        /\ stats.best_val_acc1 = best_val_acc[0].top1
        /\ stats.best_val_acc5 = best_val_acc[0].top5

(***************************************************************************)
(* The signal handlers                                                     *)
(***************************************************************************)
\* C6: with SLURM_JOB_ID set main() installs both handlers; every requeue command
\* names that job and answers a delivered SIGUSR1, and once one is issued the
\* process only goes on to exit; the process exits through no other handler, and
\* a signal ends it directly only while no handler is installed, so that SIGTERM
\* under an installed handler leaves it running. Without SLURM_JOB_ID no handler
\* is ever installed and no requeue is issued.
SignalHandling ==
    /\ slurm_job_id = 0 =>
          /\ \A s \in Signals : handlers[s] = "SIG_DFL"
          /\ requeued = <<>>
          /\ mainpc # "exited"
    /\ (slurm_job_id # 0 /\ mainpc \in {"spawned", "exited", "finished"}) =>
          /\ handlers["SIGUSR1"] = "handle_sigusr1"
          /\ handlers["SIGTERM"] = "handle_sigterm"
    /\ \A i \in 1 .. Len(requeued) : requeued[i] = slurm_job_id /\ requeued[i] # 0
    /\ Len(requeued) <= delivered["SIGUSR1"]
    /\ mainpc = "exited" => Len(requeued) >= 1
    /\ requeued # <<>> => \/ mainpc = "exited"
                          \/ mainpc = "spawned" /\ frames # <<>>
    /\ mainpc = "killed" => handlers[killedBy] = "SIG_DFL"

\* C6, its case: under SLURM a SIGTERM and then a SIGUSR1 were delivered, one
\* requeue was issued and the process has exited.
SignalHandlingWitness ==
    /\ slurm_job_id = MaxJobId
    /\ mainpc = "exited"
    /\ delivered["SIGTERM"] >= 1
    /\ requeued = <<MaxJobId>>

(***************************************************************************)
(* AverageMeter                                                            *)
(***************************************************************************)
RECURSIVE SumN(_)
SumN(log) == IF log = <<>> THEN 0 ELSE log[1][2] + SumN(Tail(log))

RECURSIVE SumValN(_)
SumValN(log) == IF log = <<>> THEN 0 ELSE log[1][1] * log[1][2] + SumValN(Tail(log))

\* C7: after reset() val, avg, sum and count are 0; after updates (val_i, n_i) of
\* total count > 0, count is the sum of the n_i, sum the sum of the val_i * n_i,
\* avg is sum / count and val is the last val_i.
MeterAverages ==
    /\ meterLog = <<>> =>
          /\ meter.val = 0 /\ meter.sum = 0 /\ meter.count = 0
          /\ meter.avg.num = 0
    /\ (meterLog # <<>> /\ SumN(meterLog) > 0) =>
          /\ meter.count = SumN(meterLog)
          /\ meter.sum = SumValN(meterLog)
          /\ meter.avg.den > 0
          /\ meter.avg.num * SumN(meterLog) = meter.avg.den * SumValN(meterLog)
          /\ meter.val = meterLog[Len(meterLog)][1]

\* C7, its case: three updates, the first of weight 0 (its division raised), with
\* an average that is no integer.
MeterAveragesWitness ==
    /\ Len(meterLog) = 3
    /\ meterLog[1][2] = 0
    /\ meter.count > 0
    /\ meter.avg.den > 1

(***************************************************************************)
(* accuracy()                                                              *)
(***************************************************************************)
\* the samples whose target is in every choice of the k highest-scoring classes,
\* and those whose target is in some choice
SureHits(k) ==
    Cardinality({i \in 1 .. Len(target) :
        Cardinality({c \in Classes : output[i][c] >= output[i][target[i]]}) <= k})
PossibleHits(k) ==
    Cardinality({i \in 1 .. Len(target) :
        Cardinality({c \in Classes : output[i][c] > output[i][target[i]]}) < k})

F32Hundred == F32Quot(100, 1)
F32AboveHundred == [m |-> F32Hundred.m + 1, e |-> F32Hundred.e]

ResultsOrdered ==
    \A i, j \in 1 .. Len(topk) : topk[i] <= topk[j] => F32Leq(res[i], res[j])

\* C8 as stated: for each k of topk, in order, the result is 100 * (samples whose
\* target is among the k highest-scoring classes) / batch_size, as the float32
\* nearest to that quotient; every value lies in [0, 100] and the value of a
\* smaller k never exceeds that of a larger k.
AccuracyExact ==
    accpc \in {"returned", "taken"} =>
        /\ Len(res) = Len(topk)
        /\ \A i \in 1 .. Len(topk) :
              /\ \E c \in SureHits(topk[i]) .. PossibleHits(topk[i]) :
                    res[i] = F32Quot(100 * c, Len(target))
              /\ F32Leq(res[i], F32Hundred)
        /\ ResultsOrdered

\* C8 as amended: the result for k is the float32 product of the number of samples
\* whose target is among the k highest-scoring classes and the float32 nearest to
\* 100 / batch_size; every value lies between 0 and the float32 next above 100,
\* and the value of a smaller k never exceeds that of a larger k.
AccuracyRounded ==
    accpc \in {"returned", "taken"} =>
        /\ Len(res) = Len(topk)
        /\ \A i \in 1 .. Len(topk) :
              /\ \E c \in SureHits(topk[i]) .. PossibleHits(topk[i]) :
                    res[i] = F32Mul(c, F32Quot(100, Len(target)))
              /\ F32Leq(res[i], F32AboveHundred)
        /\ ResultsOrdered

\* C8, its case: a full batch of MaxBatch samples, all of them hits, measured at
\* two values of k, whose result is above 100.
AccuracyRoundedWitness ==
    /\ accpc = "returned"
    /\ Len(target) = MaxBatch
    /\ Len(topk) = 2
    /\ SureHits(1) = MaxBatch
    /\ ~F32Leq(res[1], F32Hundred)

====
